---------------------------- MODULE Spec2Model ----------------------------
(***************************************************************************)
(* Model of the V1 tile pipeline: the cell grid (v1/utils.py), the         *)
(* direction/turn codec (v1/utils.py), the recursive boundary tracer       *)
(* (v1/edge_runner.py) and the chain filter (v1/chain_filter.py).          *)
(*                                                                         *)
(* The recursion of _edge_runner_recursive is modelled by an explicit      *)
(* stack of frames; each frame holds the locals of one activation of the   *)
(* function.  One action is one iteration of the `while True` loop, one    *)
(* iteration of the branch loop, or one iteration of the seed loop.  The   *)
(* three assignments that mark a cell (visited, chain_id, index_in_chain)  *)
(* are consecutive statements of a single-threaded program and are one     *)
(* step of the model.                                                      *)
(***************************************************************************)
EXTENDS Integers, Sequences, FiniteSets, TLC

(***************************************************************************)
(* Bounds of the model.                                                    *)
(***************************************************************************)
\* every activation plane of every grid of at most MaxCells tiles is traced
MaxCells == 9
\* min_length arguments handed to filter_chains: 0..MaxMinLength
MaxMinLength == 4
\* hand-built chains given to filter_chains have at most MaxTiles tiles
MaxTiles == 3
\* hand-built chain lists given to filter_chains have at most MaxChains chains
MaxChains == 3
\* sparse planes given to edge_filler have at most MaxFillActive activated tiles
MaxFillActive == 4
\* grids and activation maps given to set_activation_map have at most MaxMapCells cells
MaxMapCells == 4
\* the grid of the edge_filler tests
FillGridH == 5
FillGridW == 5

\* the grid of the horizontal-line scenario (5 x 7) and of the ring scenario (5 x 5)
LineGridH == 5
LineGridW == 7
RingGridH == 5
RingGridW == 5

VARIABLES
    height,      \* CellGrid.height
    width,       \* CellGrid.width
    cells,       \* CellGrid.cells: (i, j) -> Cell
    seeds,       \* extract_chains_from_grid: the list `seeds`
    si,          \* position of the seed loop in `seeds` (1-based)
    chains,      \* extract_chains_from_grid: the list `chains`
    stack,       \* activations of _edge_runner_recursive, innermost last
    pc,          \* "start" | "scan" | "run" | "traced" | "done" | "filled"
                 \* ("grid" | "set" around set_activation_map)
    min_length,  \* the min_length argument of filter_chains
    filtered,    \* the list filter_chains returned
    filled,      \* the CellGrid edge_filler returned
    started,     \* history: the chain ids of the activations, in the order they began
    ev           \* history: the last step the tracer took

vars == <<height, width, cells, seeds, si, chains, stack, pc, min_length, filtered, filled, started, ev>>

(***************************************************************************)
(* v1/utils.py: Cell, CellGrid, Chain                                      *)
(***************************************************************************)
Cell(a) == [activation |-> a, visited |-> 0, chain_id |-> -1, index_in_chain |-> -1]

TilesOf(h, w) == (0 .. h - 1) \X (0 .. w - 1)

\* CellGrid(h, w) with the cells cs
CellGrid(h, w, cs) == [height |-> h, width |-> w, cells |-> cs]

\* no grid returned yet
NoGrid == CellGrid(0, 0, [p \in TilesOf(0, 0) |-> Cell(0)])

Tiles == TilesOf(height, width)

in_bounds(i, j) == 0 <= i /\ i < height /\ 0 <= j /\ j < width

Chain(steps, tiles, chain_id, spliced) ==
    [steps |-> steps, tiles |-> tiles, chain_id |-> chain_id, spliced |-> spliced]

\* Python's None where a position is expected
None == <<>>

start_pos(chain) == IF Len(chain.tiles) > 0 THEN chain.tiles[1] ELSE None

end_pos(chain) == IF Len(chain.tiles) > 0 THEN chain.tiles[Len(chain.tiles)] ELSE None

is_loop(chain) == Len(chain.tiles) >= 2 /\ start_pos(chain) = end_pos(chain)

(***************************************************************************)
(* v1/utils.py: the direction / turn codec                                 *)
(***************************************************************************)
DIRECTION_VECTORS ==
    << <<-1, 0>>, <<-1, 1>>, <<0, 1>>, <<1, 1>>, <<1, 0>>, <<1, -1>>, <<0, -1>>, <<-1, -1>> >>

\* the offset of direction code d (0..7)
DirVec(d) == DIRECTION_VECTORS[d + 1]

ORTHOGONAL_DIRS == {0, 2, 4, 6}
DIAGONAL_DIRS == {1, 3, 5, 7}

\* raises ValueError when the two positions are not 8-connected neighbours
get_direction(from_pos, to_pos) ==
    LET di == to_pos[1] - from_pos[1]
        dj == to_pos[2] - from_pos[2]
        hits == {d \in 0 .. 7 : DirVec(d) = <<di, dj>>}
    IN  IF hits = {} THEN "ValueError"
        ELSE CHOOSE d \in hits : \A e \in hits : d <= e

get_distance(dir_code) ==
    IF dir_code \in ORTHOGONAL_DIRS THEN "1.0"
    ELSE IF dir_code \in DIAGONAL_DIRS THEN "sqrt(2)"
    ELSE "ValueError"

turn_map == [diff \in 0 .. 7 |->
    CASE diff = 0 -> 0
      [] diff = 1 -> 1
      [] diff = 2 -> 3
      [] diff = 3 -> 5
      [] diff = 4 -> 7
      [] diff = 5 -> 6
      [] diff = 6 -> 4
      [] diff = 7 -> 2]

\* mutant of compute_turn_code: the difference is taken the other way round
compute_turn_code_Reversed(prev_dir, new_dir) == turn_map[(prev_dir - new_dir) % 8]

compute_turn_code(prev_dir, new_dir) == turn_map[(new_dir - prev_dir) % 8]

\* the in-bounds 8-neighbours of pos, in the order of DIRECTION_VECTORS
get_neighbors_8(pos) ==
    LET all == [k \in 1 .. 8 |-> <<pos[1] + DIRECTION_VECTORS[k][1],
                                   pos[2] + DIRECTION_VECTORS[k][2]>>]
    IN  SelectSeq(all, LAMBDA n : in_bounds(n[1], n[2]))

(***************************************************************************)
(* v1/chain_filter.py                                                      *)
(***************************************************************************)
\* mutant of _touches_border: the last row and column are taken one too far
_touches_border_OffByOne(pos, grid_height, grid_width) ==
    IF pos = None THEN FALSE
    ELSE IF pos[1] = 0 \/ pos[1] = grid_height THEN TRUE
    ELSE IF pos[2] = 0 \/ pos[2] = grid_width THEN TRUE
    ELSE FALSE

_touches_border(pos, grid_height, grid_width) ==
    IF pos = None THEN FALSE
    ELSE IF pos[1] = 0 \/ pos[1] = grid_height - 1 THEN TRUE
    ELSE IF pos[2] = 0 \/ pos[2] = grid_width - 1 THEN TRUE
    ELSE FALSE

\* mutant of keeps: the rule that keeps spliced chains is missing
keeps_NoSpliceRule(chain, grid_height, grid_width, min_len) ==
    IF Len(chain.tiles) < min_len THEN FALSE
    ELSE IF is_loop(chain) THEN TRUE
    ELSE IF _touches_border(start_pos(chain), grid_height, grid_width) THEN TRUE
    ELSE IF _touches_border(end_pos(chain), grid_height, grid_width) THEN TRUE
    ELSE FALSE

\* mutant of keeps: the loop rule comes before the length rule
keeps_LoopFirst(chain, grid_height, grid_width, min_len) ==
    IF is_loop(chain) THEN TRUE
    ELSE IF Len(chain.tiles) < min_len THEN FALSE
    ELSE IF chain.spliced THEN TRUE
    ELSE IF _touches_border(start_pos(chain), grid_height, grid_width) THEN TRUE
    ELSE IF _touches_border(end_pos(chain), grid_height, grid_width) THEN TRUE
    ELSE FALSE

\* mutant of keeps: the loop rule is missing
keeps_NoLoopRule(chain, grid_height, grid_width, min_len) ==
    IF Len(chain.tiles) < min_len THEN FALSE
    ELSE IF chain.spliced THEN TRUE
    ELSE IF _touches_border(start_pos(chain), grid_height, grid_width) THEN TRUE
    ELSE IF _touches_border(end_pos(chain), grid_height, grid_width) THEN TRUE
    ELSE FALSE

\* the decision filter_chains takes for one chain of its loop
keeps(chain, grid_height, grid_width, min_len) ==
    IF Len(chain.tiles) < min_len THEN FALSE
    ELSE IF is_loop(chain) THEN TRUE
    ELSE IF chain.spliced THEN TRUE
    ELSE IF _touches_border(start_pos(chain), grid_height, grid_width) THEN TRUE
    ELSE IF _touches_border(end_pos(chain), grid_height, grid_width) THEN TRUE
    ELSE FALSE

RECURSIVE filter_loop_Prepend(_, _, _, _, _, _)
\* mutant of filter_loop: a kept chain is put in front of the list
filter_loop_Prepend(chs, grid_height, grid_width, min_len, k, out) ==
    IF k > Len(chs) THEN out
    ELSE IF keeps(chs[k], grid_height, grid_width, min_len)
         THEN filter_loop_Prepend(chs, grid_height, grid_width, min_len, k + 1, <<chs[k]>> \o out)
         ELSE filter_loop_Prepend(chs, grid_height, grid_width, min_len, k + 1, out)

RECURSIVE filter_loop(_, _, _, _, _, _)
\* the loop of filter_chains from chain k on; out is the list `filtered` so far
filter_loop(chs, grid_height, grid_width, min_len, k, out) ==
    IF k > Len(chs) THEN out
    ELSE IF keeps(chs[k], grid_height, grid_width, min_len)
         THEN filter_loop(chs, grid_height, grid_width, min_len, k + 1, Append(out, chs[k]))
         ELSE filter_loop(chs, grid_height, grid_width, min_len, k + 1, out)

\* mutant of filter_chains: the result list is built back to front
filter_chains_Prepend(chs, grid_height, grid_width, min_len) ==
    filter_loop_Prepend(chs, grid_height, grid_width, min_len, 1, <<>>)

filter_chains(chs, grid_height, grid_width, min_len) ==
    filter_loop(chs, grid_height, grid_width, min_len, 1, <<>>)

(***************************************************************************)
(* v1/edge_runner.py: helpers                                              *)
(***************************************************************************)
\* mutant of _find_initial_direction: the activation test is missing
_find_initial_direction_AnyNeighbor(pos) ==
    LET neighbors == get_neighbors_8(pos)
    IN  IF Len(neighbors) = 0 THEN -1 ELSE get_direction(pos, neighbors[1])

\* the direction to the first active neighbour; -1 stands for Python's None
_find_initial_direction(pos) ==
    LET active == SelectSeq(get_neighbors_8(pos), LAMBDA n : cells[n].activation = 1)
    IN  IF Len(active) = 0 THEN -1 ELSE get_direction(pos, active[1])

turn_angles == [t \in 0 .. 7 |->
    CASE t = 0 -> 0
      [] t = 1 -> 45
      [] t = 2 -> 45
      [] t = 3 -> 90
      [] t = 4 -> 90
      [] t = 5 -> 135
      [] t = 6 -> 135
      [] t = 7 -> 180]

\* float('inf'): larger than every entry of turn_angles
Inf == 1000

RECURSIVE choose_loop(_, _, _, _, _, _)
\* the loop of _choose_main_direction from candidate k on
choose_loop(pos, current_dir, candidates, k, min_turn, best_neighbor) ==
    IF k > Len(candidates) THEN best_neighbor
    ELSE LET nb == candidates[k]
             new_dir == get_direction(pos, nb)
             turn_code == compute_turn_code(current_dir, new_dir)
             abs_turn == turn_angles[turn_code]
         IN  IF abs_turn < min_turn
             THEN choose_loop(pos, current_dir, candidates, k + 1, abs_turn, nb)
             ELSE choose_loop(pos, current_dir, candidates, k + 1, min_turn, best_neighbor)

RECURSIVE choose_loop_LastTie(_, _, _, _, _, _)
\* mutant of choose_loop: a candidate of equal angle replaces the best so far
choose_loop_LastTie(pos, current_dir, candidates, k, min_turn, best_neighbor) ==
    IF k > Len(candidates) THEN best_neighbor
    ELSE LET nb == candidates[k]
             abs_turn == turn_angles[compute_turn_code(current_dir, get_direction(pos, nb))]
         IN  IF abs_turn <= min_turn
             THEN choose_loop_LastTie(pos, current_dir, candidates, k + 1, abs_turn, nb)
             ELSE choose_loop_LastTie(pos, current_dir, candidates, k + 1, min_turn, best_neighbor)

\* mutant of _choose_main_direction: ties go to the last candidate
_choose_main_direction_LastTie(pos, current_dir, candidates) ==
    choose_loop_LastTie(pos, current_dir, candidates, 1, Inf, candidates[1])

_choose_main_direction(pos, current_dir, candidates) ==
    choose_loop(pos, current_dir, candidates, 1, Inf, candidates[1])

_choose_splice_target(pos, current_dir, candidates) ==
    _choose_main_direction(pos, current_dir, candidates)

\* mutant of Mark: index_in_chain is not assigned
Mark_NoIndex(c, pos, id, index) ==
    [c EXCEPT ![pos] = [@ EXCEPT !.visited = 1, !.chain_id = id]]

\* mutant of Mark: index_in_chain counts from one
Mark_OneBased(c, pos, id, index) ==
    [c EXCEPT ![pos] = [@ EXCEPT !.visited = 1, !.chain_id = id, !.index_in_chain = index + 1]]

\* mutant of Mark: the visited flag is not set
Mark_NotVisited(c, pos, id, index) ==
    [c EXCEPT ![pos] = [@ EXCEPT !.chain_id = id, !.index_in_chain = index]]

\* the three assignments that claim a cell for a chain
Mark(c, pos, id, index) ==
    [c EXCEPT ![pos] = [@ EXCEPT !.visited = 1, !.chain_id = id, !.index_in_chain = index]]

\* mutant of MarkIsolated: the isolated seed is skipped without being marked
MarkIsolated_Forgotten(c, pos) == c

\* line 50: an isolated seed gets its visited flag only
MarkIsolated(c, pos) == [c EXCEPT ![pos].visited = 1]

\* mutant of active_neighbors: the activation is not tested
active_neighbors_All(pos) == get_neighbors_8(pos)

\* the active neighbours of pos, split as the walk splits them
active_neighbors(pos) == SelectSeq(get_neighbors_8(pos), LAMBDA n : cells[n].activation = 1)

\* mutant of unvisited_of: the visited flag is not tested
unvisited_of_AllActive(pos) == active_neighbors(pos)

unvisited_of(pos) == SelectSeq(active_neighbors(pos), LAMBDA n : cells[n].visited = 0)
\* mutant of visited_of: the visited neighbours are not found
visited_of_None(pos) == SelectSeq(active_neighbors(pos), LAMBDA n : FALSE)

visited_of(pos) == SelectSeq(active_neighbors(pos), LAMBDA n : cells[n].visited = 1)

\* mutant of Frame: the walk starts with an empty step list, not a copy of chain_steps
Frame_EmptySteps(pos, dir, steps, tiles, id) ==
    [current_pos |-> pos, current_dir |-> dir, current_steps |-> <<>>,
     current_tiles |-> tiles, parent_chain_id |-> id, result_chains |-> <<>>,
     at |-> "walk", unvisited |-> <<>>, bi |-> 0, main_neighbor |-> <<>>]

\* mutant of Frame: the walk starts with its own tile only, without the prefix
Frame_NoPrefix(pos, dir, steps, tiles, id) ==
    [current_pos |-> pos, current_dir |-> dir, current_steps |-> steps,
     current_tiles |-> <<pos>>, parent_chain_id |-> id, result_chains |-> <<>>,
     at |-> "walk", unvisited |-> <<>>, bi |-> 0, main_neighbor |-> <<>>]

\* the locals of one activation of _edge_runner_recursive
Frame(pos, dir, steps, tiles, id) ==
    [current_pos |-> pos, current_dir |-> dir, current_steps |-> steps,
     current_tiles |-> tiles, parent_chain_id |-> id, result_chains |-> <<>>,
     at |-> "walk", unvisited |-> <<>>, bi |-> 0, main_neighbor |-> <<>>]

\* mutant of branch_chain_id_of: the chains already collected are not counted
branch_chain_id_of_NoCount(f) == f.parent_chain_id + 1

\* line 170: the id of the next chain a frame spawns
branch_chain_id_of(f) == f.parent_chain_id + Len(f.result_chains) + 1

Top == stack[Len(stack)]

SetTop(f) == [stack EXCEPT ![Len(stack)] = f]

\* history record of the last step
Event(kind, tile, was_visited, id, first, spliced) ==
    [kind |-> kind, tile |-> tile, was_visited |-> was_visited, chain_id |-> id,
     first |-> first, spliced |-> spliced]

NoEvent == Event("none", <<>>, 0, -1, <<>>, FALSE)

\* history record of a call of filter_chains: its argument, and whether it raised
FilterEvent(input, raised) == [kind |-> "filter", input |-> input, raised |-> raised]

(***************************************************************************)
(* The inputs: activation planes                                           *)
(***************************************************************************)
\* the shapes height x width with at most MaxCells tiles
SmallShapes == {s \in (1 .. MaxCells) \X (1 .. MaxCells) : s[1] * s[2] <= MaxCells}

\* every plane of every small shape
SmallGrids ==
    UNION {{[h |-> s[1], w |-> s[2], a |-> a] : a \in [TilesOf(s[1], s[2]) -> {0, 1}]} :
           s \in SmallShapes}

\* one horizontal run of n tiles in row r from column c, all else 0
RunPlane(h, w, r, c, n) ==
    [p \in TilesOf(h, w) |-> IF p[1] = r /\ c <= p[2] /\ p[2] < c + n THEN 1 ELSE 0]

\* every run of every length >= 1 that stays off the border of the line grid
LineGrids ==
    {[h |-> LineGridH, w |-> LineGridW, a |-> RunPlane(LineGridH, LineGridW, r, c, n)] :
        <<r, c, n>> \in {t \in (1 .. LineGridH - 2) \X (1 .. LineGridW - 2) \X (1 .. LineGridW - 2) :
                            t[2] + t[3] - 1 <= LineGridW - 2}}

\* the hollow 3 x 3 ring with corners (1,1) and (3,3)
RingPlane(h, w) ==
    [p \in TilesOf(h, w) |->
        IF p[1] \in 1 .. 3 /\ p[2] \in 1 .. 3 /\ p # <<2, 2>> THEN 1 ELSE 0]

RingGrids == {[h |-> RingGridH, w |-> RingGridW, a |-> RingPlane(RingGridH, RingGridW)]}

Inputs == SmallGrids \cup LineGrids \cup RingGrids

(***************************************************************************)
(* State after CellGrid(height, width) and set_activation_map(a)           *)
(***************************************************************************)
Init ==
    \E g \in Inputs :
        /\ height = g.h
        /\ width = g.w
        /\ cells = [p \in TilesOf(g.h, g.w) |-> Cell(g.a[p])]
        /\ seeds = <<>>
        /\ si = 0
        /\ chains = <<>>
        /\ stack = <<>>
        /\ pc = "start"
        /\ min_length = 0
        /\ filtered = <<>>
        /\ filled = NoGrid
        /\ started = <<>>
        /\ ev = NoEvent

(***************************************************************************)
(* extract_chains_from_grid                                                *)
(***************************************************************************)
\* all tiles in the order of the two nested range() loops
RowMajor == [k \in 1 .. height * width |-> <<(k - 1) \div width, (k - 1) % width>>]

\* lines 33-38: the seed list
CollectSeeds ==
    /\ pc = "start"
    /\ seeds' = SelectSeq(RowMajor, LAMBDA p : cells[p].activation = 1 /\ cells[p].visited = 0)
    /\ si' = 1
    /\ pc' = "scan"
    /\ ev' = NoEvent
    /\ UNCHANGED <<height, width, cells, chains, stack, min_length, filtered, filled, started>>

\* lines 42-44: the seed was visited by an earlier walk
SkipVisitedSeed ==
    /\ pc = "scan"
    /\ si <= Len(seeds)
    /\ cells[seeds[si]].visited = 1
    /\ si' = si + 1
    /\ ev' = NoEvent
    /\ UNCHANGED <<height, width, cells, seeds, chains, stack, pc, min_length, filtered, filled, started>>

\* lines 46-51: the seed has no active neighbour
IsolatedSeed ==
    /\ pc = "scan"
    /\ si <= Len(seeds)
    /\ cells[seeds[si]].visited # 1
    /\ _find_initial_direction(seeds[si]) = -1
    /\ cells' = MarkIsolated(cells, seeds[si])
    /\ si' = si + 1
    /\ ev' = Event("isolated", seeds[si], cells[seeds[si]].visited, -1, <<>>, FALSE)
    /\ UNCHANGED <<height, width, seeds, chains, stack, pc, min_length, filtered, filled, started>>

\* mutant of StartSeed: a seed that an earlier walk visited is traced again
StartSeed_NoSkip ==
    /\ pc = "scan"
    /\ si <= Len(seeds)
    /\ _find_initial_direction(seeds[si]) # -1
    /\ LET seed_pos == seeds[si]
           id == Len(chains)
       IN  /\ cells' = Mark(cells, seed_pos, id, 0)
           /\ stack' = <<Frame(seed_pos, _find_initial_direction(seed_pos), <<>>, <<seed_pos>>, id)>>
           /\ ev' = Event("seed", seed_pos, cells[seed_pos].visited, id, seed_pos, FALSE)
           /\ started' = Append(started, id)
    /\ pc' = "run"
    /\ UNCHANGED <<height, width, seeds, si, chains, min_length, filtered, filled>>

\* lines 53-61 and the entry of _edge_runner_recursive, lines 105-114
StartSeed ==
    /\ pc = "scan"
    /\ si <= Len(seeds)
    /\ cells[seeds[si]].visited # 1
    /\ _find_initial_direction(seeds[si]) # -1
    /\ LET seed_pos == seeds[si]
           id == Len(chains)
       IN  /\ cells' = Mark(cells, seed_pos, id, 0)
           /\ stack' = <<Frame(seed_pos, _find_initial_direction(seed_pos), <<>>, <<seed_pos>>, id)>>
           /\ ev' = Event("seed", seed_pos, cells[seed_pos].visited, id, seed_pos, FALSE)
           /\ started' = Append(started, id)
    /\ pc' = "run"
    /\ UNCHANGED <<height, width, seeds, si, chains, min_length, filtered, filled>>

\* line 66: the seed loop is over
ReturnChains ==
    /\ pc = "scan"
    /\ si > Len(seeds)
    /\ pc' = "traced"
    /\ ev' = NoEvent
    /\ UNCHANGED <<height, width, cells, seeds, si, chains, stack, min_length, filtered, filled, started>>

(***************************************************************************)
(* _edge_runner_recursive: one action per iteration of its loops           *)
(***************************************************************************)
\* lines 130-148: exactly one unvisited neighbour
WalkSingle ==
    /\ pc = "run"
    /\ Top.at = "walk"
    /\ Len(unvisited_of(Top.current_pos)) = 1
    /\ LET f == Top
           next_pos == unvisited_of(f.current_pos)[1]
           new_dir == get_direction(f.current_pos, next_pos)
           turn_code == compute_turn_code(f.current_dir, new_dir)
           dist == get_distance(new_dir)
           tiles == Append(f.current_tiles, next_pos)
       IN  /\ cells' = Mark(cells, next_pos, f.parent_chain_id, Len(tiles) - 1)
           /\ stack' = SetTop([f EXCEPT !.current_steps = Append(@, <<turn_code, dist>>),
                                        !.current_tiles = tiles,
                                        !.current_pos = next_pos,
                                        !.current_dir = new_dir])
           /\ ev' = Event("single", next_pos, cells[next_pos].visited, f.parent_chain_id,
                          tiles[1], FALSE)
    /\ UNCHANGED <<height, width, seeds, si, chains, pc, min_length, filtered, filled, started>>

\* lines 150-158: a branch point; the list `unvisited` and the main neighbour
\* are fixed here, before the branch loop runs
BranchPoint ==
    /\ pc = "run"
    /\ Top.at = "walk"
    /\ Len(unvisited_of(Top.current_pos)) > 1
    /\ LET f == Top
           unvisited == unvisited_of(f.current_pos)
       IN  stack' = SetTop([f EXCEPT !.at = "branch",
                                     !.unvisited = unvisited,
                                     !.bi = 1,
                                     !.main_neighbor =
                                        _choose_main_direction(f.current_pos, f.current_dir, unvisited)])
    /\ ev' = NoEvent
    /\ UNCHANGED <<height, width, cells, seeds, si, chains, pc, min_length, filtered, filled, started>>

\* lines 158-160: the branch loop passes over the main neighbour
SkipMain ==
    /\ pc = "run"
    /\ Top.at = "branch"
    /\ Top.bi <= Len(Top.unvisited)
    /\ Top.unvisited[Top.bi] = Top.main_neighbor
    /\ stack' = SetTop([Top EXCEPT !.bi = @ + 1])
    /\ ev' = NoEvent
    /\ UNCHANGED <<height, width, cells, seeds, si, chains, pc, min_length, filtered, filled, started>>

\* lines 162-185 and the entry of the recursive call, lines 105-114
SpawnBranch ==
    /\ pc = "run"
    /\ Top.at = "branch"
    /\ Top.bi <= Len(Top.unvisited)
    /\ Top.unvisited[Top.bi] # Top.main_neighbor
    /\ LET f == Top
           nb == f.unvisited[f.bi]
           branch_dir == get_direction(f.current_pos, nb)
           branch_turn == compute_turn_code(f.current_dir, branch_dir)
           branch_dist == get_distance(branch_dir)
           branch_steps == Append(f.current_steps, <<branch_turn, branch_dist>>)
           branch_tiles == Append(f.current_tiles, nb)
           branch_chain_id == branch_chain_id_of(f)
       IN  /\ cells' = Mark(cells, nb, branch_chain_id, Len(branch_tiles) - 1)
           /\ stack' = Append(SetTop([f EXCEPT !.bi = @ + 1]),
                              Frame(nb, branch_dir, branch_steps, branch_tiles, branch_chain_id))
           /\ ev' = Event("branch", nb, cells[nb].visited, branch_chain_id,
                          branch_tiles[1], FALSE)
           /\ started' = Append(started, branch_chain_id)
    /\ UNCHANGED <<height, width, seeds, si, chains, pc, min_length, filtered, filled>>

\* lines 189-202: the walk goes on into the main neighbour
MainStep ==
    /\ pc = "run"
    /\ Top.at = "branch"
    /\ Top.bi > Len(Top.unvisited)
    /\ LET f == Top
           new_dir == get_direction(f.current_pos, f.main_neighbor)
           turn_code == compute_turn_code(f.current_dir, new_dir)
           dist == get_distance(new_dir)
           tiles == Append(f.current_tiles, f.main_neighbor)
       IN  /\ cells' = Mark(cells, f.main_neighbor, f.parent_chain_id, Len(tiles) - 1)
           /\ stack' = SetTop([f EXCEPT !.current_steps = Append(@, <<turn_code, dist>>),
                                        !.current_tiles = tiles,
                                        !.current_pos = f.main_neighbor,
                                        !.current_dir = new_dir,
                                        !.at = "walk",
                                        !.unvisited = <<>>,
                                        !.bi = 0,
                                        !.main_neighbor = <<>>])
           /\ ev' = Event("main", f.main_neighbor, cells[f.main_neighbor].visited,
                          f.parent_chain_id, tiles[1], FALSE)
    /\ UNCHANGED <<height, width, seeds, si, chains, pc, min_length, filtered, filled, started>>

\* mutant of SpliceEnd: spliced is set without the loop test
SpliceEnd_AlwaysSpliced(f) ==
    LET visited == visited_of(f.current_pos)
        splice_neighbor == _choose_splice_target(f.current_pos, f.current_dir, visited)
        splice_dir == get_direction(f.current_pos, splice_neighbor)
        splice_turn == compute_turn_code(f.current_dir, splice_dir)
        splice_dist == get_distance(splice_dir)
        steps == Append(f.current_steps, <<splice_turn, splice_dist>>)
        tiles == Append(f.current_tiles, splice_neighbor)
    IN  [chain |-> Chain(steps, tiles, f.parent_chain_id, TRUE),
         ev |-> Event("splice", splice_neighbor, cells[splice_neighbor].visited,
                      f.parent_chain_id, tiles[1], TRUE)]

\* lines 204-236: the chain a splice ends, with its history record
SpliceEnd(f) ==
    LET visited == visited_of(f.current_pos)
        splice_neighbor == _choose_splice_target(f.current_pos, f.current_dir, visited)
        splice_dir == get_direction(f.current_pos, splice_neighbor)
        splice_turn == compute_turn_code(f.current_dir, splice_dir)
        splice_dist == get_distance(splice_dir)
        steps == Append(f.current_steps, <<splice_turn, splice_dist>>)
        tiles == Append(f.current_tiles, splice_neighbor)
        loop == Len(tiles) >= 3 /\ tiles[Len(tiles)] = tiles[1]
    IN  [chain |-> Chain(steps, tiles, f.parent_chain_id, ~loop),
         ev |-> Event("splice", splice_neighbor, cells[splice_neighbor].visited,
                      f.parent_chain_id, tiles[1], ~loop)]

\* lines 238-249: the chain a dead end ends, with its history record
DeadEnd(f) ==
    [chain |-> Chain(f.current_steps, f.current_tiles, f.parent_chain_id, FALSE),
     ev |-> Event("dead_end", f.current_pos, 1, f.parent_chain_id, f.current_tiles[1], FALSE)]

\* mutant of Terminate: the walk's own chain is put after its branch chains
Terminate_OwnLast ==
    /\ pc = "run"
    /\ Top.at = "walk"
    /\ Len(unvisited_of(Top.current_pos)) = 0
    /\ LET f == Top
           end == IF Len(visited_of(f.current_pos)) > 0 THEN SpliceEnd(f) ELSE DeadEnd(f)
           result_chains == f.result_chains \o <<end.chain>>
           rest == SubSeq(stack, 1, Len(stack) - 1)
       IN  /\ ev' = end.ev
           /\ IF Len(rest) > 0
              THEN /\ stack' = [rest EXCEPT ![Len(rest)].result_chains = @ \o result_chains]
                   /\ UNCHANGED <<chains, si, pc>>
              ELSE /\ stack' = <<>>
                   /\ chains' = chains \o result_chains
                   /\ si' = si + 1
                   /\ pc' = "scan"
    /\ UNCHANGED <<height, width, cells, seeds, min_length, filtered, filled, started>>

\* lines 204-249, and the caller's extend (line 187 or line 64)
Terminate ==
    /\ pc = "run"
    /\ Top.at = "walk"
    /\ Len(unvisited_of(Top.current_pos)) = 0
    /\ LET f == Top
           end == IF Len(visited_of(f.current_pos)) > 0 THEN SpliceEnd(f) ELSE DeadEnd(f)
           result_chains == <<end.chain>> \o f.result_chains
           rest == SubSeq(stack, 1, Len(stack) - 1)
       IN  /\ ev' = end.ev
           /\ IF Len(rest) > 0
              THEN /\ stack' = [rest EXCEPT ![Len(rest)].result_chains = @ \o result_chains]
                   /\ UNCHANGED <<chains, si, pc>>
              ELSE /\ stack' = <<>>
                   /\ chains' = chains \o result_chains
                   /\ si' = si + 1
                   /\ pc' = "scan"
    /\ UNCHANGED <<height, width, cells, seeds, min_length, filtered, filled, started>>

(***************************************************************************)
(* filter_chains on the traced chains                                      *)
(***************************************************************************)
Filter ==
    /\ pc = "traced"
    /\ \E m \in 0 .. MaxMinLength :
        /\ min_length' = m
        /\ filtered' = filter_chains(chains, height, width, m)
    /\ pc' = "done"
    /\ ev' = FilterEvent(chains, FALSE)
    /\ UNCHANGED <<height, width, cells, seeds, si, chains, stack, filled, started>>

\* one call of extract_chains_from_grid, then one call of filter_chains
TraceNext ==
    \/ CollectSeeds
    \/ SkipVisitedSeed
    \/ IsolatedSeed
    \/ StartSeed
    \/ ReturnChains
    \/ WalkSingle
    \/ BranchPoint
    \/ SkipMain
    \/ SpawnBranch
    \/ MainStep
    \/ Terminate
    \/ Filter

(***************************************************************************)
(* v1/edge_filler.py                                                       *)
(***************************************************************************)
\* CellGrid.get_activation_map
get_activation_map(cs) == [p \in DOMAIN cs |-> cs[p].activation]

RECURSIVE should_activate_TwoGap(_, _, _, _)
\* mutant of should_activate: a gap of two tiles is closed as well
should_activate_TwoGap(original_activation, i, j, d) ==
    IF d > Len(DIRECTION_VECTORS) THEN FALSE
    ELSE LET dx == DIRECTION_VECTORS[d][1]
             dy == DIRECTION_VECTORS[d][2]
         IN  IF ~in_bounds(i - dx, j - dy)
             THEN should_activate_TwoGap(original_activation, i, j, d + 1)
             ELSE IF /\ in_bounds(i + dx, j + dy)
                     /\ original_activation[<<i - dx, j - dy>>] = 1
                     /\ original_activation[<<i + dx, j + dy>>] = 1
             THEN TRUE
             ELSE IF /\ in_bounds(i + 2 * dx, j + 2 * dy)
                     /\ original_activation[<<i - dx, j - dy>>] = 1
                     /\ original_activation[<<i + 2 * dx, j + 2 * dy>>] = 1
             THEN TRUE
             ELSE should_activate_TwoGap(original_activation, i, j, d + 1)

RECURSIVE should_activate(_, _, _, _)
\* lines 58-77: the loop over `directions` from the d-th direction on
should_activate(original_activation, i, j, d) ==
    IF d > Len(DIRECTION_VECTORS) THEN FALSE
    ELSE LET dx == DIRECTION_VECTORS[d][1]
             dy == DIRECTION_VECTORS[d][2]
             i_minus == i - dx
             j_minus == j - dy
             i_plus == i + dx
             j_plus == j + dy
         IN  IF ~in_bounds(i_minus, j_minus)
             THEN should_activate(original_activation, i, j, d + 1)
             ELSE IF ~in_bounds(i_plus, j_plus)
             THEN should_activate(original_activation, i, j, d + 1)
             ELSE IF /\ original_activation[<<i_minus, j_minus>>] = 1
                     /\ original_activation[<<i_plus, j_plus>>] = 1
             THEN TRUE
             ELSE should_activate(original_activation, i, j, d + 1)

RECURSIVE fill_loop_InPlace(_, _, _, _)
\* mutant of fill_loop: the pattern is looked up in the plane being filled
fill_loop_InPlace(order, plane, k, out) ==
    IF k > Len(order) THEN out
    ELSE LET p == order[k]
             a == IF plane[p] = 1 \/ should_activate(plane, p[1], p[2], 1) THEN 1 ELSE 0
         IN  fill_loop_InPlace(order, [plane EXCEPT ![p] = a], k + 1,
                               [out EXCEPT ![p].activation = a])

RECURSIVE fill_loop(_, _, _, _)
\* lines 48-80: the two nested loops over the cells (in the order `order`),
\* from the k-th cell on; out is filled.cells so far
fill_loop(order, original_activation, k, out) ==
    IF k > Len(order) THEN out
    ELSE LET p == order[k]
             copied == [out EXCEPT ![p].activation = original_activation[p]]
         IN  IF original_activation[p] = 1
             THEN fill_loop(order, original_activation, k + 1, copied)
             ELSE IF should_activate(original_activation, p[1], p[2], 1)
             THEN fill_loop(order, original_activation, k + 1, [copied EXCEPT ![p].activation = 1])
             ELSE fill_loop(order, original_activation, k + 1, copied)

\* mutant of edge_filler: the gaps are filled in place, in the plane read
edge_filler_InPlace(cs) ==
    CellGrid(height, width,
             fill_loop_InPlace(RowMajor, get_activation_map(cs), 1, [p \in Tiles |-> Cell(0)]))

\* mutant of edge_filler: the output grid starts as a copy of the input cells
edge_filler_CopyCells(cs) ==
    CellGrid(height, width, fill_loop(RowMajor, get_activation_map(cs), 1, cs))

\* mutant of edge_filler: gaps of two tiles are closed as well
edge_filler_TwoGap(cs) ==
    CellGrid(height, width,
             [p \in Tiles |->
                Cell(IF cs[p].activation = 1
                        \/ should_activate_TwoGap(get_activation_map(cs), p[1], p[2], 1)
                     THEN 1 ELSE 0)])

\* edge_filler(cells) for the grid cs of the declared height and width
edge_filler(cs) ==
    LET original_activation == get_activation_map(cs)
    IN  CellGrid(height, width,
                 fill_loop(RowMajor, original_activation, 1, [p \in Tiles |-> Cell(0)]))

\* history record of a call of edge_filler: the cells of its argument
FillEvent(input) == [kind |-> "edge_filler", input |-> input]

\* one call of edge_filler, on a fresh grid or on a grid that has been traced
EdgeFiller ==
    /\ pc \in {"start", "traced"}
    /\ filled' = edge_filler(cells)
    /\ pc' = "filled"
    /\ ev' = FillEvent(cells)
    /\ UNCHANGED <<height, width, cells, seeds, si, chains, stack, min_length, filtered, started>>

RECURSIVE TileSets(_, _, _)
\* the sets of at most n tiles of the h x w grid
TileSets(h, w, n) ==
    IF n = 0 THEN {{}}
    ELSE LET smaller == TileSets(h, w, n - 1)
         IN  smaller \cup {S \cup {t} : <<S, t>> \in smaller \X TilesOf(h, w)}

\* the planes of the test grid with at most MaxFillActive activated tiles
SparseGrids ==
    {[h |-> FillGridH, w |-> FillGridW,
      a |-> [p \in TilesOf(FillGridH, FillGridW) |-> IF p \in S THEN 1 ELSE 0]] :
     S \in TileSets(FillGridH, FillGridW, MaxFillActive)}

FillInputs == SmallGrids \cup SparseGrids

FillInit ==
    \E g \in FillInputs :
        /\ height = g.h
        /\ width = g.w
        /\ cells = [p \in TilesOf(g.h, g.w) |-> Cell(g.a[p])]
        /\ seeds = <<>>
        /\ si = 0
        /\ chains = <<>>
        /\ stack = <<>>
        /\ pc = "start"
        /\ min_length = 0
        /\ filtered = <<>>
        /\ filled = NoGrid
        /\ started = <<>>
        /\ ev = NoEvent

FillNext ==
    \/ EdgeFiller

\* edge_filler alone, on small and on sparse planes
FillSpec == FillInit /\ [][FillNext]_vars

(***************************************************************************)
(* v1/utils.py: CellGrid.set_activation_map                                *)
(***************************************************************************)
\* the outcome of a call: the cells as it leaves them, and whether it raised
Outcome(cs, raised) == [cells |-> cs, raised |-> raised]

RECURSIVE set_loop(_, _, _, _)
\* lines 42-44: the two nested loops from the k-th cell on; activation_map[i, j]
\* raises IndexError for an index outside the array, which ends the loops
set_loop(order, activation_map, k, cs) ==
    IF k > Len(order) THEN Outcome(cs, FALSE)
    ELSE LET p == order[k]
         IN  IF p[1] >= activation_map.h \/ p[2] >= activation_map.w
             THEN Outcome(cs, TRUE)
             ELSE set_loop(order, activation_map, k + 1,
                           [cs EXCEPT ![p].activation = activation_map.a[p]])

set_activation_map(cs, activation_map) == set_loop(RowMajor, activation_map, 1, cs)

\* history record of a call of set_activation_map
SetEvent(activation_map, before, raised) ==
    [kind |-> "set_activation_map", map_height |-> activation_map.h,
     map_width |-> activation_map.w, before |-> before, raised |-> raised]

MapShapes == {s \in (1 .. MaxMapCells) \X (1 .. MaxMapCells) : s[1] * s[2] <= MaxMapCells}

\* every two-dimensional 0/1 array of every small shape
MapGrids ==
    UNION {{[h |-> s[1], w |-> s[2], a |-> a] : a \in [TilesOf(s[1], s[2]) -> {0, 1}]} :
           s \in MapShapes}

\* grid.set_activation_map(activation_map) for an array of any small shape
SetActivationMap ==
    /\ pc = "grid"
    /\ \E activation_map \in MapGrids :
         LET outcome == set_activation_map(cells, activation_map)
         IN  /\ cells' = outcome.cells
             /\ ev' = SetEvent(activation_map, cells, outcome.raised)
    /\ pc' = "set"
    /\ UNCHANGED <<height, width, seeds, si, chains, stack, min_length, filtered, filled, started>>

\* a small grid that holds some activation plane
GridInit ==
    \E g \in MapGrids :
        /\ height = g.h
        /\ width = g.w
        /\ cells = [p \in TilesOf(g.h, g.w) |-> Cell(g.a[p])]
        /\ seeds = <<>>
        /\ si = 0
        /\ chains = <<>>
        /\ stack = <<>>
        /\ pc = "grid"
        /\ min_length = 0
        /\ filtered = <<>>
        /\ filled = NoGrid
        /\ started = <<>>
        /\ ev = NoEvent

GridNext ==
    \/ SetActivationMap

\* one call of set_activation_map on a grid
GridSpec == GridInit /\ [][GridNext]_vars

(***************************************************************************)
(* filter_chains on hand-built chains, as the tests of the filter call it  *)
(***************************************************************************)
\* start and end positions on each border of the line grid, and two interior ones
FilterPositions ==
    {<<0, 1>>, <<LineGridH - 1, 1>>, <<1, 0>>, <<1, LineGridW - 1>>, <<1, 1>>, <<2, 2>>}

TileLists == UNION {[1 .. k -> FilterPositions] : k \in 0 .. MaxTiles}

StraightSteps(n) == [k \in 1 .. n |-> <<0, "1.0">>]

\* a chain with len(steps) + 1 = len(tiles) (no steps for no tiles)
WellFormed(tiles, spliced) ==
    Chain(StraightSteps(IF Len(tiles) = 0 THEN 0 ELSE Len(tiles) - 1), tiles, -1, spliced)

\* a chain with one step too many for its tiles
Malformed(tiles, spliced) ==
    Chain(StraightSteps(IF Len(tiles) = 0 THEN 1 ELSE Len(tiles)), tiles, -1, spliced)

ChainPool ==
    {WellFormed(t, b) : <<t, b>> \in TileLists \X BOOLEAN}
    \cup {Malformed(t, b) : <<t, b>> \in TileLists \X BOOLEAN}

\* a two-tile loop, an interior open chain, a spliced one and a border chain
SmallPool ==
    {WellFormed(<< <<1, 1>>, <<1, 1>> >>, FALSE),
     WellFormed(<< <<1, 1>>, <<2, 2>> >>, FALSE),
     WellFormed(<< <<2, 2>>, <<1, 1>>, <<2, 2>>, <<1, 1>> >>, TRUE),
     WellFormed(<< <<0, 1>>, <<1, 1>>, <<2, 2>> >>, FALSE)}

FilterInputs ==
    {<<c>> : c \in ChainPool} \cup UNION {[1 .. k -> SmallPool] : k \in 0 .. MaxChains}

FilterInit ==
    /\ height = LineGridH
    /\ width = LineGridW
    /\ cells = [p \in TilesOf(LineGridH, LineGridW) |-> Cell(0)]
    /\ seeds = <<>>
    /\ si = 0
    /\ chains \in FilterInputs
    /\ stack = <<>>
    /\ pc = "traced"
    /\ min_length = 0
    /\ filtered = <<>>
    /\ filled = NoGrid
    /\ started = <<>>
    /\ ev = NoEvent

FilterNext ==
    \/ Filter

FilterSpec == FilterInit /\ [][FilterNext]_vars

Next ==
    \/ TraceNext
    \/ EdgeFiller

Spec == Init /\ [][Next]_vars

\* the trace and the filter alone
TraceSpec == Init /\ [][TraceNext]_vars

(***************************************************************************)
(* Vocabulary of the properties                                            *)
(***************************************************************************)
Range(seq) == {seq[k] : k \in 1 .. Len(seq)}

\* every chain built so far: returned to the seed loop or to a caller still running
Emitted == Range(chains) \cup UNION {Range(stack[k].result_chains) : k \in 1 .. Len(stack)}

Traced == pc \in {"traced", "done"}

Active(p) == cells[p].activation = 1

\* an activated tile without any activated 8-neighbour
Isolated(p) == Active(p) /\ \A n \in Range(get_neighbors_8(p)) : ~Active(n)

Plane == [p \in Tiles |-> cells[p].activation]

IsRing == height = RingGridH /\ width = RingGridW /\ Plane = RingPlane(RingGridH, RingGridW)

\* the plane is one horizontal run of n >= 3 tiles off the border of the line grid
LineRuns ==
    {t \in (1 .. LineGridH - 2) \X (1 .. LineGridW - 2) \X (3 .. LineGridW - 2) :
        /\ t[2] + t[3] - 1 <= LineGridW - 2
        /\ height = LineGridH /\ width = LineGridW
        /\ Plane = RunPlane(LineGridH, LineGridW, t[1], t[2], t[3])}

RunTiles(t) == {<<t[1], j>> : j \in t[2] .. t[2] + t[3] - 1}

(***************************************************************************)
(* C1: every step that continues a walk (single step, start of a spawned   *)
(* branch, step into the main neighbour) moves onto a tile whose visited   *)
(* flag was 0 immediately before the step.                                 *)
(***************************************************************************)
C1_WalkOntoUnvisited ==
    ev.kind \in {"single", "branch", "main"} => ev.was_visited = 0

(***************************************************************************)
(* C2: once a cell's chain_id is >= 0, no later step changes its chain_id  *)
(* or its index_in_chain.                                                  *)
(***************************************************************************)
C2_OwnershipAssignedOnce ==
    [][\A p \in Tiles : cells[p].chain_id >= 0 =>
          /\ cells'[p].chain_id = cells[p].chain_id
          /\ cells'[p].index_in_chain = cells[p].index_in_chain]_vars

(***************************************************************************)
(* C3: after extract_chains_from_grid returns, every tile whose activation *)
(* is 1 has visited = 1.                                                   *)
(***************************************************************************)
C3_ActiveVisited ==
    Traced => \A p \in Tiles : Active(p) => cells[p].visited = 1

\* a finished trace with an isolated tile and a tile that never started a chain
C3_Witness ==
    /\ pc = "traced"
    /\ \E p \in Tiles : Isolated(p)
    /\ \E p \in Tiles : Active(p) /\ cells[p].index_in_chain > 0

(***************************************************************************)
(* C4 as stated: in every state, for every cell, visited = 1 iff           *)
(* chain_id >= 0 iff index_in_chain >= 0.                                  *)
(***************************************************************************)
C4_ThreeFieldsTogether ==
    \A p \in Tiles :
        /\ (cells[p].visited = 1) <=> (cells[p].chain_id >= 0)
        /\ (cells[p].chain_id >= 0) <=> (cells[p].index_in_chain >= 0)

(***************************************************************************)
(* C4 amended: chain_id >= 0 iff index_in_chain >= 0, and both imply       *)
(* visited = 1; a cell with visited = 1 and chain_id = -1 is an activated  *)
(* tile without activated neighbour (the seed loop sets only its visited). *)
(***************************************************************************)
C4_FieldsTogetherExceptIsolated ==
    \A p \in Tiles :
        /\ (cells[p].chain_id >= 0) <=> (cells[p].index_in_chain >= 0)
        /\ cells[p].chain_id >= 0 => cells[p].visited = 1
        /\ cells[p].visited \in {0, 1}
        /\ (cells[p].visited = 1 /\ cells[p].chain_id < 0) =>
              (Isolated(p) /\ cells[p].chain_id = -1 /\ cells[p].index_in_chain = -1)

\* a trace that has claimed a tile for a chain and has passed an isolated tile
C4_Witness ==
    /\ \E p \in Tiles : cells[p].visited = 1 /\ cells[p].chain_id = -1
    /\ \E p \in Tiles : cells[p].visited = 1 /\ cells[p].chain_id >= 0
    /\ \E p \in Tiles : Active(p) /\ cells[p].visited = 0

(***************************************************************************)
(* C5: tracing the hollow 3 x 3 ring yields at least one chain for which   *)
(* is_loop() is true.                                                      *)
(***************************************************************************)
C5_RingHasLoop ==
    (Traced /\ IsRing) => \E c \in Range(chains) : is_loop(c)

(***************************************************************************)
(* C6: an interior horizontal run of n >= 3 tiles yields exactly one       *)
(* chain, whose tile set is the run and which is spliced; filter_chains    *)
(* with min_length <= 3 keeps it.                                          *)
(***************************************************************************)
C6_LineOneSplicedChainKept ==
    \A t \in LineRuns :
        /\ Traced =>
              /\ Len(chains) = 1
              /\ Range(chains[1].tiles) = RunTiles(t)
              /\ chains[1].spliced = TRUE
        /\ (pc = "done" /\ min_length <= 3) => filtered = chains

\* the filter has run with min_length 3 on the chain of the 3-tile run of the scenario
C6_Witness ==
    /\ pc = "done"
    /\ min_length = 3
    /\ <<1, 1, 3>> \in LineRuns
    /\ Len(filtered) = 1

(***************************************************************************)
(* C7: a chain is emitted with spliced = TRUE iff its last step entered an *)
(* already visited tile that is not its own first tile; a chain whose last *)
(* tile equals its first tile has spliced = FALSE, so no emitted chain has *)
(* both is_loop() and spliced.                                             *)
(***************************************************************************)
C7_SplicedIffForeignVisitedEnd ==
    /\ ev.kind = "splice" => (ev.spliced <=> (ev.was_visited = 1 /\ ev.tile # ev.first))
    /\ ev.kind = "dead_end" => ~ev.spliced
    /\ ev.kind \in {"splice", "dead_end"} =>
          \E c \in Emitted : /\ c.chain_id = ev.chain_id
                             /\ c.spliced = ev.spliced
                             /\ c.tiles[1] = ev.first
                             /\ (ev.kind = "splice" => c.tiles[Len(c.tiles)] = ev.tile)
    /\ \A c \in Emitted : /\ ~(is_loop(c) /\ c.spliced)
                          /\ c.tiles[Len(c.tiles)] = c.tiles[1] => ~c.spliced

\* a walk has just closed on its own first tile, and a spliced chain exists too
C7_Witness ==
    /\ ev.kind = "splice" /\ ev.tile = ev.first /\ ~ev.spliced
    /\ \E c \in Emitted : c.spliced

(***************************************************************************)
(* C8: every emitted chain has len(tiles) = len(steps) + 1 and at least    *)
(* one tile, seed chains and spawned branch chains alike.                  *)
(***************************************************************************)
C8_TilesOneMoreThanSteps ==
    \A c \in Emitted : Len(c.tiles) = Len(c.steps) + 1 /\ Len(c.tiles) >= 1

\* a seed chain and a chain of a nested branch have been emitted
C8_Witness ==
    /\ Traced
    /\ Len(chains) >= 3
    /\ \E c \in Range(chains) : c.chain_id > 0 /\ Len(c.tiles) >= 4

(***************************************************************************)
(* C9: all chains returned by one call have pairwise distinct chain_id.    *)
(***************************************************************************)
C9_DistinctChainIds ==
    /\ \A c, d \in Emitted : c.chain_id = d.chain_id => c = d
    /\ \A i, j \in 1 .. Len(chains) : chains[i].chain_id = chains[j].chain_id => i = j

\* two seeds have produced chains and one of them has branched
C9_Witness ==
    /\ Traced
    /\ \E c, d \in Range(chains) : c.tiles[1] # d.tiles[1]
    /\ \E c, d \in Range(chains) : c # d /\ c.tiles[1] = d.tiles[1]

(***************************************************************************)
(* C10: an activated tile without activated neighbour is marked visited    *)
(* and is in no chain; a grid whose activated tiles are all isolated gives *)
(* an empty chain list; no emitted chain has a single tile.                *)
(***************************************************************************)
C10_IsolatedTilesYieldNoChain ==
    /\ \A c \in Emitted : Len(c.tiles) # 1
    /\ \A p \in Tiles : Isolated(p) => \A c \in Emitted : p \notin Range(c.tiles)
    /\ Traced =>
          /\ \A p \in Tiles : Isolated(p) => cells[p].visited = 1
          /\ (\A p \in Tiles : Active(p) => Isolated(p)) => chains = <<>>

\* a finished trace of a grid with two activated tiles, both isolated
C10_Witness ==
    /\ pc = "traced"
    /\ Cardinality({p \in Tiles : Active(p)}) >= 2
    /\ \A p \in Tiles : Active(p) => Isolated(p)
    /\ chains = <<>>

(***************************************************************************)
(* C11: extract_chains_from_grid terminates on every finite grid: every    *)
(* step of the trace lowers a natural-number measure (the activated tiles  *)
(* not yet visited, the loop iterations the open activations still owe,    *)
(* the seeds not yet scanned), and a trace that has not returned always    *)
(* has a next step; so every walk reaches a terminating step and the seed  *)
(* scan reaches its return after at most Variant steps.  (TLC takes far    *)
(* too long over ENABLED Terminate, so the guards are written out.)        *)
(***************************************************************************)
\* what one activation of _edge_runner_recursive still owes
FrameCost(f) ==
    IF f.at = "walk" THEN 1 + 6 * Len(unvisited_of(f.current_pos))
    ELSE 2 + 4 * (Len(f.unvisited) - f.bi + 1)

RECURSIVE StackCost(_)
StackCost(k) == IF k = 0 THEN 0 ELSE FrameCost(stack[k]) + StackCost(k - 1)

Variant ==
    50 * Cardinality({p \in Tiles : Active(p) /\ cells[p].visited = 0})
    + StackCost(Len(stack))
    + (CASE pc = "start" -> Cardinality({p \in Tiles : Active(p)}) + 3
         [] pc \in {"scan", "run"} -> Len(seeds) - si + 2
         [] OTHER -> 0)

\* a step of a running trace lowers the measure, which never goes below 0
VariantStep == pc \in {"start", "scan", "run"} => (Variant' < Variant /\ Variant' >= 0)

\* the guard of some action of the trace holds (the guards as the actions state them)
CanStep ==
    \/ pc = "start"
    \/ /\ pc = "scan"
       /\ \/ si > Len(seeds)
          \/ /\ si >= 1 /\ si <= Len(seeds)
             /\ \/ cells[seeds[si]].visited = 1
                \/ _find_initial_direction(seeds[si]) = -1
                \/ _find_initial_direction(seeds[si]) # -1
    \/ /\ pc = "run"
       /\ Len(stack) > 0
       /\ \/ /\ Top.at = "walk"
             /\ \/ Len(unvisited_of(Top.current_pos)) = 1
                \/ Len(unvisited_of(Top.current_pos)) > 1
                \/ Len(unvisited_of(Top.current_pos)) = 0
          \/ /\ Top.at = "branch"
             /\ Top.bi >= 1
             /\ \/ Top.bi > Len(Top.unvisited)
                \/ Top.unvisited[Top.bi] = Top.main_neighbor
                \/ Top.unvisited[Top.bi] # Top.main_neighbor

C11_Terminates ==
    /\ [][VariantStep]_vars
    /\ [](pc \in {"start", "scan", "run"} => CanStep)

\* a finished trace in which a walk went over a tile that another walk had claimed
C11_Witness ==
    /\ pc = "traced"
    /\ \E c \in Range(chains) : \E k \in 1 .. Len(c.tiles) - 1 :
          cells[c.tiles[k]].index_in_chain # k - 1

(***************************************************************************)
(* Vocabulary of the filter properties                                     *)
(***************************************************************************)
Kept(c) == c \in Range(filtered)

\* the position is on the first or last row or column of the grid
OnBorder(pos) ==
    /\ pos # None
    /\ (pos[1] \in {0, height - 1} \/ pos[2] \in {0, width - 1})

EndOnBorder(c) == OnBorder(start_pos(c)) \/ OnBorder(end_pos(c))

RECURSIVE SubseqFrom(_, _, _, _)
\* a[i..] is a subsequence of b[j..]
SubseqFrom(a, i, b, j) ==
    IF i > Len(a) THEN TRUE
    ELSE IF j > Len(b) THEN FALSE
    ELSE IF a[i] = b[j] THEN SubseqFrom(a, i + 1, b, j + 1)
    ELSE SubseqFrom(a, i, b, j + 1)

C13_LongChainsKeptIff ==
    pc = "done" =>
        \A c \in Range(chains) : Len(c.tiles) >= min_length =>
            (Kept(c) <=> (is_loop(c) \/ c.spliced \/ EndOnBorder(c)))

\* an open, unspliced chain is kept only for its end on the last column, and
\* the same call shape drops an interior one
C13_Witness ==
    /\ pc = "done"
    /\ Len(chains) = 1
    /\ Len(chains[1].tiles) >= min_length
    /\ ~is_loop(chains[1]) /\ ~chains[1].spliced
    /\ start_pos(chains[1]) = <<1, 1>>
    /\ end_pos(chains[1]) = <<1, LineGridW - 1>>
    /\ filtered = chains

(***************************************************************************)
(* C14: (docstring of filter_chains) a chain is kept if it forms a loop or *)
(* touches the border or ended via splicing, and a chain is dropped only   *)
(* if it is open, has both ends interior, is not spliced and is shorter    *)
(* than min_length; loops are always kept.                                 *)
(***************************************************************************)
C14_DocstringRule ==
    pc = "done" =>
        \A c \in Range(chains) :
            /\ (is_loop(c) \/ EndOnBorder(c) \/ c.spliced) => Kept(c)
            /\ ~Kept(c) => (/\ ~is_loop(c)
                            /\ ~EndOnBorder(c)
                            /\ ~c.spliced
                            /\ Len(c.tiles) < min_length)

(***************************************************************************)
(* C17: the output of filter_chains is a subsequence of its input (same    *)
(* chains, same relative order, none added or duplicated), and the input   *)
(* list and its chains are as they were before the call.                   *)
(***************************************************************************)
C17_OrderPreservingSubsequence ==
    pc = "done" =>
        /\ SubseqFrom(filtered, 1, chains, 1)
        /\ ev.kind = "filter" /\ chains = ev.input

\* a list of three chains lost one and kept two different ones
C17_Witness ==
    /\ pc = "done"
    /\ Len(chains) = 3
    /\ Len(filtered) = 2
    /\ filtered[1] # filtered[2]

(***************************************************************************)
(* C20: filter_chains signals an error for a chain whose tiles list is     *)
(* shorter than len(steps) + 1.                                            *)
(***************************************************************************)
C20_MalformedRejected ==
    (pc = "done" /\ \E c \in Range(chains) : Len(c.tiles) < Len(c.steps) + 1)
        => ev.raised

(***************************************************************************)
(* Vocabulary of the gap-filling properties                                *)
(***************************************************************************)
Offsets == ({-1, 0, 1} \X {-1, 0, 1}) \ {<<0, 0>>}

Shift(p, d, n) == <<p[1] + n * d[1], p[2] + n * d[2]>>

\* the activation of tile p in the input grid and in the returned grid
Input(p) == cells[p].activation

Output(p) == filled.cells[p].activation

\* p is the middle of a 1-0-1 pattern of the input plane along the axis d
Bridged(p, d) ==
    /\ Shift(p, d, -1) \in Tiles /\ Input(Shift(p, d, -1)) = 1
    /\ Shift(p, d, 1) \in Tiles /\ Input(Shift(p, d, 1)) = 1

\* p is the middle of a 1-0-1 pattern of the returned plane along the axis d
BridgedOut(p, d) ==
    /\ Shift(p, d, -1) \in Tiles /\ Output(Shift(p, d, -1)) = 1
    /\ Shift(p, d, 1) \in Tiles /\ Output(Shift(p, d, 1)) = 1

\* four consecutive tiles from p along d read 1-0-0-1 in the input plane
TwoGap(p, d) ==
    /\ Shift(p, d, 3) \in Tiles
    /\ Input(p) = 1 /\ Input(Shift(p, d, 1)) = 0
    /\ Input(Shift(p, d, 2)) = 0 /\ Input(Shift(p, d, 3)) = 1

(***************************************************************************)
(* C15: the output activation of edge_filler at a tile is 1 if and only if *)
(* the input activation there is 1 or some direction offset has both       *)
(* opposite neighbours in bounds and 1 in the input plane; only the        *)
(* original plane counts, filled tiles enable no further fill.             *)
(***************************************************************************)
C15_FilledIffBridgedInOriginal ==
    pc = "filled" =>
        \A p \in Tiles :
            /\ Output(p) \in {0, 1}
            /\ Output(p) = 1 <=> (Input(p) = 1 \/ \E d \in Offsets : Bridged(p, d))

\* a gap was filled, and a tile that is bridged only in the output plane stays 0
C15_Witness ==
    /\ pc = "filled"
    /\ \E p \in Tiles : Input(p) = 0 /\ Output(p) = 1
    /\ \E p \in Tiles : /\ Output(p) = 0
                        /\ \E d \in Offsets : BridgedOut(p, d)

(***************************************************************************)
(* C16: whenever four consecutive tiles along an axis read 1-0-0-1 in the  *)
(* input plane, both middle tiles are 0 in the output of edge_filler.      *)
(***************************************************************************)
C16_TwoGapNeverFilled ==
    pc = "filled" =>
        \A p \in Tiles : \A d \in Offsets :
            TwoGap(p, d) => /\ Output(Shift(p, d, 1)) = 0
                            /\ Output(Shift(p, d, 2)) = 0

(***************************************************************************)
(* C16 (amended): a middle tile of a 1-0-0-1 pattern is 1 in the output    *)
(* exactly when it is the middle of a 1-0-1 pattern of the input plane     *)
(* along another axis; the gap's own axis never fills it.                  *)
(***************************************************************************)
C16_TwoGapFilledOnlyAcross ==
    pc = "filled" =>
        \A p \in Tiles : \A d \in Offsets :
            TwoGap(p, d) =>
                \A n \in {1, 2} :
                    Output(Shift(p, d, n)) = 1 <=>
                        \E e \in Offsets \ {d, <<-d[1], -d[2]>>} :
                            Bridged(Shift(p, d, n), e)

\* a diagonal 1-0-0-1 whose middle tiles both stay 0
C16_Witness ==
    /\ pc = "filled"
    /\ \E p \in Tiles :
         /\ TwoGap(p, <<1, 1>>)
         /\ Output(Shift(p, <<1, 1>>, 1)) = 0
         /\ Output(Shift(p, <<1, 1>>, 2)) = 0

(***************************************************************************)
(* C18: edge_filler returns a new grid of the same height and width whose  *)
(* cells all have visited = 0, chain_id = -1 and index_in_chain = -1, and  *)
(* every field of every cell of the input grid is as before, also when the *)
(* input grid has been traced.                                             *)
(***************************************************************************)
C18_FreshGridInputUntouched ==
    pc = "filled" =>
        /\ filled.height = height /\ filled.width = width
        /\ DOMAIN filled.cells = Tiles
        /\ \A p \in Tiles : /\ filled.cells[p].visited = 0
                            /\ filled.cells[p].chain_id = -1
                            /\ filled.cells[p].index_in_chain = -1
        /\ ev.kind = "edge_filler" /\ cells = ev.input

\* a traced grid with a chain went through edge_filler, which filled a gap
C18_Witness ==
    /\ pc = "filled"
    /\ \E p \in Tiles : cells[p].visited = 1 /\ cells[p].chain_id >= 0
    /\ \E p \in Tiles : cells[p].activation = 0 /\ filled.cells[p].activation = 1

(***************************************************************************)
(* C19: an activation plane whose shape differs from the grid's height x   *)
(* width (smaller or larger in either dimension) is rejected with an error *)
(* before any mutation: after the call every cell's activation is what it  *)
(* was before.                                                             *)
(***************************************************************************)
C19_ShapeMismatchRejected ==
    (pc = "set" /\ (ev.map_height # height \/ ev.map_width # width))
        => (ev.raised /\ cells = ev.before)

(***************************************************************************)
(* Vocabulary of the branch properties                                     *)
(***************************************************************************)
IsPrefix(a, b) == Len(a) <= Len(b) /\ SubSeq(b, 1, Len(a)) = a

\* the step the codec gives for the move from pos to nb after direction dir
StepTo(pos, dir, nb) ==
    <<compute_turn_code(dir, get_direction(pos, nb)), get_distance(get_direction(pos, nb))>>

\* a step that spawns a branch: the new activation starts with the parent's
\* tiles and steps plus the step to its branch neighbour, and the parent's
\* lists stay as they are
BranchCopies ==
    (pc = "run" /\ Len(stack) >= 1 /\ Len(stack') = Len(stack) + 1) =>
        LET parent == stack[Len(stack)]
            child == stack'[Len(stack')]
        IN  /\ child.current_tiles = Append(parent.current_tiles, child.current_pos)
            /\ child.current_steps =
                  Append(parent.current_steps,
                         StepTo(parent.current_pos, parent.current_dir, child.current_pos))
            /\ stack'[Len(stack)].current_tiles = parent.current_tiles
            /\ stack'[Len(stack)].current_steps = parent.current_steps

\* a step of the innermost activation leaves the lists of the suspended ones
\* alone, and the innermost one only appends to its own
ListsIndependent ==
    /\ \A k \in 1 .. Len(stack) :
          (k < Len(stack) /\ k <= Len(stack')) =>
              /\ stack'[k].current_tiles = stack[k].current_tiles
              /\ stack'[k].current_steps = stack[k].current_steps
    /\ (Len(stack) >= 1 /\ Len(stack') = Len(stack)) =>
          /\ IsPrefix(Top.current_tiles, stack'[Len(stack)].current_tiles)
          /\ IsPrefix(Top.current_steps, stack'[Len(stack)].current_steps)

\* every activation and every chain handed back belongs to the seed at hand
StartsAtSeed ==
    /\ \A k \in 1 .. Len(stack') : stack'[k].current_tiles[1] = seeds'[si']
    /\ \A k \in Len(chains) + 1 .. Len(chains') : chains'[k].tiles[1] = seeds[si]

C21_Step == BranchCopies /\ ListsIndependent /\ StartsAtSeed

(***************************************************************************)
(* C21: a chain spawned at a branch point starts with a copy of the parent *)
(* walk's tiles and steps up to the branch-point tile, followed by the     *)
(* step to its own branch neighbour; later appends of the parent do not    *)
(* appear in the child nor the child's in the parent; so every chain of a  *)
(* seed has tiles[0] equal to that seed.                                   *)
(***************************************************************************)
C21_CopyOnBranch == [][C21_Step]_vars

\* two returned chains share a prefix and then both go on differently
C21_Witness ==
    /\ pc = "traced"
    /\ \E a, b \in Range(chains) : \E j \in 1 .. Len(a.tiles) - 2 :
          /\ j + 2 <= Len(b.tiles)
          /\ SubSeq(a.tiles, 1, j) = SubSeq(b.tiles, 1, j)
          /\ SubSeq(a.steps, 1, j - 1) = SubSeq(b.steps, 1, j - 1)
          /\ a.tiles[j + 1] # b.tiles[j + 1]

(***************************************************************************)
(* Vocabulary of the choice among neighbours                               *)
(***************************************************************************)
\* the absolute angle of each turn code
AbsAngle == <<0, 45, 45, 90, 90, 135, 135, 180>>

\* the place of the neighbour nb of pos in the enumeration N, NE, E, SE, S, SW, W, NW
Compass(pos, nb) ==
    CHOOSE d \in 0 .. 7 : <<pos[1] + DirVec(d)[1], pos[2] + DirVec(d)[2]>> = nb

\* the absolute angle of the turn from direction dir into the neighbour nb of pos
AngleTo(pos, dir, nb) == AbsAngle[compute_turn_code(dir, Compass(pos, nb)) + 1]

\* m is the candidate of smallest angle, and the first of those in the enumeration
IsBest(pos, dir, candidates, m) ==
    /\ m \in candidates
    /\ \A c \in candidates :
          \/ AngleTo(pos, dir, m) < AngleTo(pos, dir, c)
          \/ AngleTo(pos, dir, m) = AngleTo(pos, dir, c) /\ Compass(pos, m) <= Compass(pos, c)

ActiveAround(pos, v) ==
    {n \in Range(get_neighbors_8(pos)) : cells[n].activation = 1 /\ cells[n].visited = v}

\* the step that fixes the main neighbour, and the step that splices
C22_Step ==
    /\ (pc = "run" /\ Top.at = "walk" /\ Len(stack') = Len(stack)
          /\ stack'[Len(stack)].at = "branch") =>
            /\ Cardinality(ActiveAround(Top.current_pos, 0)) >= 2
            /\ IsBest(Top.current_pos, Top.current_dir, ActiveAround(Top.current_pos, 0),
                      stack'[Len(stack)].main_neighbor)
    /\ (pc = "run" /\ ev'.kind = "splice") =>
            IsBest(Top.current_pos, Top.current_dir, ActiveAround(Top.current_pos, 1), ev'.tile)

(***************************************************************************)
(* C22: at a branch point the main neighbour, and at a splice the target   *)
(* among the visited active neighbours, is the candidate whose turn code   *)
(* relative to the current direction has the smallest absolute angle       *)
(* (0, 45, 45, 90, 90, 135, 135, 180 for codes 0..7); among candidates of  *)
(* equal angle the first in the N, NE, E, SE, S, SW, W, NW order wins.     *)
(***************************************************************************)
C22_SmallestTurnFirstInOrder == [][C22_Step]_vars

\* a branch point whose main neighbour tied with another candidate
C22_Witness ==
    /\ pc = "run"
    /\ Len(stack) >= 1
    /\ Top.at = "branch"
    /\ Top.bi = 1
    /\ \E c \in Range(Top.unvisited) :
          /\ c # Top.main_neighbor
          /\ AngleTo(Top.current_pos, Top.current_dir, c)
                = AngleTo(Top.current_pos, Top.current_dir, Top.main_neighbor)

(***************************************************************************)
(* C23: the chains of one seed are returned with the seed's own chain      *)
(* first, then the chains spawned at its branch points in depth-first      *)
(* discovery order (each spawned chain directly followed by its own nested *)
(* branch chains, siblings in the order their neighbours were enumerated); *)
(* all chains of an earlier seed come before all chains of a later seed.   *)
(***************************************************************************)
C23_DepthFirstDiscoveryOrder ==
    Traced =>
        /\ Len(chains) = Len(started)
        /\ \A k \in 1 .. Len(chains) : chains[k].chain_id = started[k]
        /\ \A k \in 1 .. Len(chains) - 1 :
              \E a, b \in 1 .. Len(seeds) :
                  /\ a <= b
                  /\ chains[k].tiles[1] = seeds[a]
                  /\ chains[k + 1].tiles[1] = seeds[b]

\* two seeds gave chains, and the first seed's walk spawned a branch that
\* spawned a branch of its own
C23_Witness ==
    /\ pc = "traced"
    /\ \E k \in 3 .. Len(chains) - 1 :
          /\ chains[1].tiles[1] = chains[3].tiles[1]
          /\ chains[k + 1].tiles[1] # chains[1].tiles[1]
          /\ IsPrefix(SubSeq(chains[2].tiles, 1, Len(chains[2].tiles) - 2), chains[3].tiles)
          /\ ~IsPrefix(SubSeq(chains[2].tiles, 1, Len(chains[2].tiles) - 2), chains[1].tiles)

(***************************************************************************)
(* Vocabulary of the step encoding                                         *)
(***************************************************************************)
Abs(x) == IF x < 0 THEN -x ELSE x

Adjacent(a, b) == a # b /\ Abs(a[1] - b[1]) <= 1 /\ Abs(a[2] - b[2]) <= 1

\* the direction from the seed to its first activated neighbour in compass order
SeedDirection(seed) ==
    LET open == {d \in 0 .. 7 :
                    LET n == <<seed[1] + DirVec(d)[1], seed[2] + DirVec(d)[2]>>
                    IN  n \in Tiles /\ Active(n)}
    IN  CHOOSE d \in open : \A e \in open : d <= e

\* the direction the walk of chain c had before its k-th step
DirectionBefore(c, k) ==
    IF k = 1 THEN SeedDirection(c.tiles[1]) ELSE Compass(c.tiles[k - 1], c.tiles[k])

\* the k-th step of chain c encodes the move from its k-th tile to the next
StepEncodesMove(c, k) ==
    LET from == c.tiles[k]
        to == c.tiles[k + 1]
    IN  /\ from \in Tiles /\ to \in Tiles
        /\ Active(from) /\ Active(to)
        /\ Adjacent(from, to)
        /\ c.steps[k][1] = turn_map[(Compass(from, to) - DirectionBefore(c, k)) % 8]
        /\ c.steps[k][2] = IF from[1] = to[1] \/ from[2] = to[2] THEN "1.0" ELSE "sqrt(2)"

(***************************************************************************)
(* C24: every step of every emitted chain is the codec encoding of the     *)
(* move between its two tiles: the tiles are distinct, in bounds,          *)
(* activated and 8-adjacent, the distance is 1.0 for an orthogonal and     *)
(* sqrt(2) for a diagonal move, and the turn code is the table value of    *)
(* (direction of the move - previous direction) mod 8, the previous        *)
(* direction of the first step being the direction from the seed to its    *)
(* first activated neighbour in N, NE, E, SE, S, SW, W, NW order.          *)
(***************************************************************************)
C24_StepsEncodeMoves ==
    \A c \in Emitted :
        /\ Len(c.tiles) = Len(c.steps) + 1
        /\ \A k \in 1 .. Len(c.steps) : StepEncodesMove(c, k)

\* a returned chain with a diagonal move that turns left, and one whose first
\* move is not in the seed's initial direction
C24_Witness ==
    /\ pc = "traced"
    /\ \E c \in Range(chains) : \E k \in 2 .. Len(c.steps) :
          c.steps[k] = <<2, "sqrt(2)">>
    /\ \E c \in Range(chains) : c.steps[1][1] # 0

(***************************************************************************)
(* C25: every chain the tracer emits ends with a splice step: the dead-end *)
(* case is never reached, so every emitted chain has at least 3 tiles, its *)
(* last tile was already visited when it was appended, and exactly one of  *)
(* is_loop() and spliced is true for it.                                   *)
(***************************************************************************)
C25_EveryChainEndsBySplice ==
    /\ ev.kind # "dead_end"
    /\ ev.kind = "splice" => ev.was_visited = 1
    /\ \A c \in Emitted :
          /\ Len(c.tiles) >= 3
          /\ cells[c.tiles[Len(c.tiles)]].visited = 1
          /\ is_loop(c) # c.spliced

\* a trace returned a closed loop and a chain spliced into another chain
C25_Witness ==
    /\ pc = "traced"
    /\ \E c \in Range(chains) : is_loop(c) /\ ~c.spliced
    /\ \E c \in Range(chains) :
          /\ c.spliced /\ ~is_loop(c)
          /\ cells[c.tiles[Len(c.tiles)]].chain_id # c.chain_id

C27_BookkeepingMatchesChains ==
    Traced =>
        /\ \A k \in 1 .. Len(chains) : chains[k].chain_id = k - 1
        /\ \A p \in Tiles :
              cells[p].chain_id >= 0 =>
                  /\ cells[p].chain_id < Len(chains)
                  /\ cells[p].index_in_chain >= 0
                  /\ cells[p].index_in_chain < Len(chains[cells[p].chain_id + 1].tiles)
                  /\ chains[cells[p].chain_id + 1].tiles[cells[p].index_in_chain + 1] = p

\* three chains were returned, and a tile deep in the third is booked for it
C27_Witness ==
    /\ pc = "traced"
    /\ Len(chains) >= 3
    /\ \E p \in Tiles : cells[p].chain_id = 2 /\ cells[p].index_in_chain >= 2

(***************************************************************************)
(* Vocabulary of the connected components                                  *)
(***************************************************************************)
RECURSIVE Grow(_)
\* the activated tiles 8-connected to the tiles of S
Grow(S) ==
    LET more == S \cup {n \in Tiles : Active(n) /\ \E q \in S : Adjacent(q, n)}
    IN  IF more = S THEN S ELSE Grow(more)

Component(p) == Grow({p})

\* the first tile of S in row-major order
RowMajorFirst(S) ==
    CHOOSE p \in S : \A q \in S : p[1] < q[1] \/ (p[1] = q[1] /\ p[2] <= q[2])

(***************************************************************************)
(* C28: each 8-connected component of activated tiles with at least two    *)
(* tiles is traced from exactly one seed, its row-major-first tile: every  *)
(* emitted chain holds tiles of one component only, its tiles[0] is the    *)
(* row-major-first tile of that component, and every such component yields *)
(* at least one chain.                                                     *)
(***************************************************************************)
C28_OneSeedPerComponent ==
    Traced =>
        /\ \A c \in Range(chains) :
              /\ Range(c.tiles) \subseteq Component(c.tiles[1])
              /\ c.tiles[1] = RowMajorFirst(Component(c.tiles[1]))
        /\ \A p \in Tiles :
              (Active(p) /\ ~Isolated(p)) =>
                  \E c \in Range(chains) : c.tiles[1] = RowMajorFirst(Component(p))
        /\ \A a, b \in 1 .. Len(chains) :
              (chains[a].tiles[1] = chains[b].tiles[1] /\ a <= b) =>
                  \A k \in a .. b : chains[k].tiles[1] = chains[a].tiles[1]

\* two separate components of at least two tiles each gave chains, and a
\* later tile of the first component was passed over as a seed
C28_Witness ==
    /\ pc = "traced"
    /\ \E c, d \in Range(chains) : d.tiles[1] \notin Component(c.tiles[1])
    /\ Len(seeds) > Cardinality({c.tiles[1] : c \in Range(chains)})

\* no coordinate occurs twice in the list
Distinct(tiles) == \A a, b \in 1 .. Len(tiles) : tiles[a] = tiles[b] => a = b

(***************************************************************************)
(* C29: within any single emitted chain all tiles except the last are      *)
(* pairwise distinct: a chain repeats a coordinate only through its final, *)
(* terminating splice step (a walk still running repeats none).            *)
(***************************************************************************)
C29_TilesDistinctButLast ==
    /\ \A c \in Emitted : Distinct(SubSeq(c.tiles, 1, Len(c.tiles) - 1))
    /\ \A k \in 1 .. Len(stack) : Distinct(stack[k].current_tiles)

\* a returned chain of five tiles or more ends on one of its own inner tiles
C29_Witness ==
    /\ pc = "traced"
    /\ \E c \in Range(chains) :
          /\ Len(c.tiles) >= 5
          /\ \E k \in 2 .. Len(c.tiles) - 2 : c.tiles[k] = c.tiles[Len(c.tiles)]

\* tiles that are not activated hold the values of a fresh Cell
InactiveUntouched ==
    \A p \in Tiles : ~Active(p) => cells[p] = Cell(0)

\* no step changes the activation of a tile
ActivationKept ==
    /\ DOMAIN cells' = DOMAIN cells
    /\ \A p \in Tiles : cells'[p].activation = cells[p].activation

(***************************************************************************)
(* C30: extract_chains_from_grid never changes a tile's activation and     *)
(* never modifies visited, chain_id or index_in_chain of a tile whose      *)
(* activation is 0: after tracing every inactive tile still has            *)
(* visited = 0, chain_id = -1 and index_in_chain = -1.                     *)
(***************************************************************************)
C30_ActivationAndInactiveTilesKept == []InactiveUntouched /\ [][ActivationKept]_vars

\* a finished trace whose chain passed next to a tile that is not activated
C30_Witness ==
    /\ pc = "traced"
    /\ \E c \in Range(chains) : \E k \in 1 .. Len(c.tiles) : \E p \in Tiles :
          /\ ~Active(p)
          /\ Adjacent(c.tiles[k], p)
          /\ cells[p].visited = 0

=============================================================================
